---- MODULE Spec2Model ----
(***************************************************************************)
(* A model of the two value types of the repository:                       *)
(*   - Hbar / HbarUnit (src/unnamed/part_000), a monetary amount held as a *)
(*     bignumber.js BigNumber count of tinybars;                           *)
(*   - the transaction identifier class of src/src/ExchangeRate.ts         *)
(*     (lines 41-248).                                                     *)
(* TLC's integers are 32 bits wide, so every BigNumber and every Long is   *)
(* modelled as an exact decimal: a sign, a coefficient of any size (limbs  *)
(* in base 10000, least significant first) and a number of decimal places. *)
(***************************************************************************)
EXTENDS Integers, Sequences, FiniteSets, TLC

VARIABLES
    rawAmount,  \* Hbar: the raw value this run hands to the library
    rawUnit,    \* Hbar: the HbarUnit this run uses
    held,       \* Hbar: the Hbar object the caller holds (NoValue before the first)
    hcall,      \* Hbar: the last call made, with its arguments and its outcome
    targs,      \* identifier: the constructor arguments this run uses
    tid,        \* identifier: the object the caller holds (NoValue before the first)
    tcall,      \* identifier: the last call made, with its arguments and its outcome
    rmsg,       \* exchange rates: the ExchangeRateSet message this run was sent
    rcall       \* exchange rates: the last call made, with its argument and its outcome

hvars == <<rawAmount, rawUnit, held, hcall>>

tvars == <<targs, tid, tcall>>

rvars == <<rmsg, rcall>>

vars == <<hvars, tvars, rvars>>

(***************************************************************************)
(* Natural numbers of any size: sequences of limbs in base 10000, least    *)
(* significant first, without leading zero limbs; <<>> is zero.            *)
(***************************************************************************)
RECURSIVE NatStrip(_)
NatStrip(a) ==
    IF a = <<>> THEN <<>>
    ELSE IF a[Len(a)] = 0 THEN NatStrip(SubSeq(a, 1, Len(a) - 1))
    ELSE a

RECURSIVE NatOfInt(_)
NatOfInt(n) == IF n = 0 THEN <<>> ELSE <<n % 10000>> \o NatOfInt(n \div 10000)

NatLimbAt(a, i) == IF i <= Len(a) THEN a[i] ELSE 0

NatMaxLen(a, b) == IF Len(a) >= Len(b) THEN Len(a) ELSE Len(b)

RECURSIVE NatAddFrom(_, _, _, _)
NatAddFrom(a, b, i, carry) ==
    IF i > NatMaxLen(a, b)
    THEN (IF carry = 0 THEN <<>> ELSE <<carry>>)
    ELSE LET t == NatLimbAt(a, i) + NatLimbAt(b, i) + carry
         IN  <<t % 10000>> \o NatAddFrom(a, b, i + 1, t \div 10000)

NatAdd(a, b) == NatStrip(NatAddFrom(a, b, 1, 0))

\* -1, 0 or 1 as a < b, a = b, a > b (both without leading zeros)
RECURSIVE NatCmpFrom(_, _, _)
NatCmpFrom(a, b, i) ==
    IF i = 0 THEN 0
    ELSE IF a[i] < b[i] THEN -1
    ELSE IF a[i] > b[i] THEN 1
    ELSE NatCmpFrom(a, b, i - 1)

NatCmp(a, b) ==
    IF Len(a) < Len(b) THEN -1
    ELSE IF Len(a) > Len(b) THEN 1
    ELSE NatCmpFrom(a, b, Len(a))

\* a - b, for a >= b
RECURSIVE NatSubFrom(_, _, _, _)
NatSubFrom(a, b, i, borrow) ==
    IF i > Len(a) THEN <<>>
    ELSE LET t == a[i] - NatLimbAt(b, i) - borrow
         IN  IF t < 0 THEN <<t + 10000>> \o NatSubFrom(a, b, i + 1, 1)
             ELSE <<t>> \o NatSubFrom(a, b, i + 1, 0)

NatSub(a, b) == NatStrip(NatSubFrom(a, b, 1, 0))

\* a * d for 0 <= d < 10000
RECURSIVE NatMulLimbFrom(_, _, _, _)
NatMulLimbFrom(a, d, i, carry) ==
    IF i > Len(a)
    THEN (IF carry = 0 THEN <<>> ELSE <<carry>>)
    ELSE LET t == a[i] * d + carry
         IN  <<t % 10000>> \o NatMulLimbFrom(a, d, i + 1, t \div 10000)

NatMulLimb(a, d) == NatStrip(NatMulLimbFrom(a, d, 1, 0))

RECURSIVE NatZeros(_)
NatZeros(k) == IF k <= 0 THEN <<>> ELSE <<0>> \o NatZeros(k - 1)

\* a * 10000^k
NatShiftLimbs(a, k) == IF a = <<>> THEN <<>> ELSE NatZeros(k) \o a

RECURSIVE NatMulFrom(_, _, _)
NatMulFrom(a, b, j) ==
    IF j > Len(b) THEN <<>>
    ELSE NatAdd(NatShiftLimbs(NatMulLimb(a, b[j]), j - 1), NatMulFrom(a, b, j + 1))

NatMul(a, b) == NatMulFrom(a, b, 1)

SmallPow10(k) == IF k = 0 THEN 1 ELSE IF k = 1 THEN 10 ELSE IF k = 2 THEN 100 ELSE 1000

\* a * 10^k
NatShift(a, k) == NatShiftLimbs(NatMulLimb(a, SmallPow10(k % 4)), k \div 4)

\* the largest q in lo..hi with q * b <= r, given lo * b <= r < (hi + 1) * b
RECURSIVE NatQuotLimb(_, _, _, _)
NatQuotLimb(r, b, lo, hi) ==
    IF lo = hi THEN lo
    ELSE LET mid == (lo + hi + 1) \div 2
         IN  IF NatCmp(NatMulLimb(b, mid), r) <= 0
             THEN NatQuotLimb(r, b, mid, hi)
             ELSE NatQuotLimb(r, b, lo, mid - 1)

\* long division from limb i of a downwards, rem the remainder and quot the
\* quotient so far; <<quotient, remainder>>, b # 0
RECURSIVE NatDivFrom(_, _, _, _, _)
NatDivFrom(a, b, i, rem, quot) ==
    IF i = 0 THEN <<NatStrip(quot), rem>>
    ELSE LET r == NatStrip(<<a[i]>> \o rem)
             q == NatQuotLimb(r, b, 0, 9999)
             m == NatSub(r, NatMulLimb(b, q))
         IN  NatDivFrom(a, b, i - 1, m, <<q>> \o quot)

NatDivMod(a, b) == NatDivFrom(a, b, Len(a), <<>>, <<>>)

\* a \div d, for 0 < d <= 10000, from limb i of a downwards
RECURSIVE NatDivSmallFrom(_, _, _, _)
NatDivSmallFrom(a, d, i, rem) ==
    IF i = 0 THEN <<>>
    ELSE LET t == rem * 10000 + a[i]
         IN  NatDivSmallFrom(a, d, i - 1, t % d) \o <<t \div d>>

NatDivSmall(a, d) == NatStrip(NatDivSmallFrom(a, d, Len(a), 0))

\* the last decimal digit of a, and a without it
NatLastDigit(a) == NatLimbAt(a, 1) % 10

NatDropDigit(a) == NatDivSmall(a, 10)

(***************************************************************************)
(* bignumber.js BigNumber: the value s * c * 10^e, with s the sign (1 or   *)
(* -1; zero is signed, as the comment of Hbar.zero notes; 0 marks NaN), c  *)
(* the limbs of the coefficient and e the decimal exponent.  Kept          *)
(* normalised (c not divisible by 10; zero has e = 0), so equal values     *)
(* with equal signs are equal records.  As in the library, every operation *)
(* looks at the signs of its operands first and yields NaN if either is    *)
(* NaN.                                                                    *)
(***************************************************************************)
BnNaN == [s |-> 0, c |-> <<>>, e |-> 0]

RECURSIVE BigNumber(_, _, _)
BigNumber(s, c, e) ==
    IF c = <<>> THEN [s |-> s, c |-> <<>>, e |-> 0]
    ELSE IF c[1] = 0 THEN BigNumber(s, Tail(c), e + 4)
    ELSE IF c[1] % 10 = 0 THEN BigNumber(s, NatDropDigit(c), e + 1)
    ELSE [s |-> s, c |-> c, e |-> e]

\* new BigNumber(n) for a JavaScript integer n that TLC can hold
BN(n) == IF n < 0 THEN BigNumber(-1, NatOfInt(-n), 0) ELSE BigNumber(1, NatOfInt(n), 0)

\* new BigNumber(-0), new BigNumber("-0")
BNNegZero == BigNumber(-1, <<>>, 0)

BnIsNaN(x) == x.s = 0

BnIsZero(x) == x.s # 0 /\ x.c = <<>>

\* BigNumber.prototype.isNegative: the sign alone, so true of -0
BnIsNegative(x) == x.s < 0

BnIsInteger(x) == x.s # 0 /\ x.e >= 0

BnNegated(x) == [x EXCEPT !.s = -x.s]

BnMinE(x, y) == IF x.e <= y.e THEN x.e ELSE y.e

\* the coefficient of x at the exponent e (e <= x.e)
BnCoeffAt(x, e) == NatShift(x.c, x.e - e)

\* compare(x, y) of bignumber.js for operands that are not NaN: zeros compare
\* equal whatever their signs
BnCompare(x, y) ==
    IF x.c = <<>> THEN (IF y.c = <<>> THEN 0 ELSE -y.s)
    ELSE IF y.c = <<>> THEN x.s
    ELSE IF x.s # y.s THEN x.s
    ELSE x.s * NatCmp(BnCoeffAt(x, BnMinE(x, y)), BnCoeffAt(y, BnMinE(x, y)))

\* BigNumber.prototype.isLessThan, isGreaterThan: false for NaN
BnIsLessThan(x, y) == x.s # 0 /\ y.s # 0 /\ BnCompare(x, y) < 0
BnIsGreaterThan(x, y) == x.s # 0 /\ y.s # 0 /\ BnCompare(x, y) > 0

\* BigNumber.prototype.multipliedBy: exact; a zero product keeps the sign
BnMultipliedBy(x, y) ==
    IF x.s = 0 \/ y.s = 0 THEN BnNaN
    ELSE BigNumber(x.s * y.s, NatMul(x.c, y.c), x.e + y.e)

\* BigNumber.prototype.plus / minus: exact.  Magnitudes are added when the
\* signs agree; otherwise the smaller is taken from the larger, and a zero
\* difference is +0 (ROUNDING_MODE is not ROUND_FLOOR).
BnAddMag(x, y, s) ==
    BigNumber(s, NatAdd(BnCoeffAt(x, BnMinE(x, y)), BnCoeffAt(y, BnMinE(x, y))),
              BnMinE(x, y))

BnSubMag(x, y) ==
    LET e == BnMinE(x, y)
        a == BnCoeffAt(x, e)
        b == BnCoeffAt(y, e)
    IN  IF NatCmp(a, b) = 0 THEN BigNumber(1, <<>>, 0)
        ELSE IF NatCmp(a, b) > 0 THEN BigNumber(x.s, NatSub(a, b), e)
        ELSE BigNumber(-x.s, NatSub(b, a), e)

BnPlus(x, y) ==
    IF x.s = 0 \/ y.s = 0 THEN BnNaN
    ELSE IF x.s = y.s THEN BnAddMag(x, y, x.s) ELSE BnSubMag(x, y)

BnMinus(x, y) ==
    IF x.s = 0 \/ y.s = 0 THEN BnNaN
    ELSE IF x.s # y.s THEN BnAddMag(x, y, x.s) ELSE BnSubMag(x, y)

\* BigNumber.prototype.pow, for an exponent n >= 0
RECURSIVE BnPow(_, _)
BnPow(x, n) ==
    IF n = 0 THEN BN(1)
    ELSE IF n % 2 = 0
         THEN LET h == BnPow(x, n \div 2) IN BnMultipliedBy(h, h)
         ELSE BnMultipliedBy(x, BnPow(x, n - 1))

\* bignumber.js defaults: DECIMAL_PLACES 20, ROUNDING_MODE ROUND_HALF_UP
DECIMAL_PLACES == 20

\* BigNumber.prototype.dividedBy, for a divisor that is not zero: the quotient
\* rounded half up (on the magnitude) to DECIMAL_PLACES decimal places; the
\* sign is the product of the operands' signs, also for a zero quotient.
\* A divisor 10^k with a quotient of at most DECIMAL_PLACES decimals (every
\* division by a unit's tinybar count is one) needs no rounding.
BnDividedBy(x, y) ==
    IF x.s = 0 \/ y.s = 0 THEN BnNaN
    ELSE IF y.c = <<1>> /\ x.e - y.e >= -DECIMAL_PLACES
    THEN BigNumber(x.s * y.s, x.c, x.e - y.e)
    ELSE LET \* |x / y| = (x.c / y.c) * 10^(x.e - y.e); q is the floor of
             \* |x / y| * 10^(DECIMAL_PLACES + 1): one digit more than is kept
             k == x.e - y.e + DECIMAL_PLACES + 1
             q == NatDivMod(NatShift(x.c, IF k > 0 THEN k ELSE 0),
                            NatShift(y.c, IF k < 0 THEN -k ELSE 0))[1]
             t == NatDropDigit(q)
             r == IF NatLastDigit(q) >= 5 THEN NatAdd(t, <<1>>) ELSE t
         IN  BigNumber(x.s * y.s, r, -DECIMAL_PLACES)

(***************************************************************************)
(* HbarUnit and Hbar (src/unnamed/part_000)                                *)
(***************************************************************************)
HbarUnit == {"tinybar", "microbar", "millibar", "hbar", "kilobar", "megabar", "gigabar"}

\* HbarUnit._toTinybarCount
toTinybarCount(unit) ==
    CASE unit = "tinybar"  -> BN(1)
      [] unit = "microbar" -> BN(100)
      [] unit = "millibar" -> BN(100000)
      [] unit = "hbar"     -> BN(100000000)
      [] unit = "kilobar"  -> BnMultipliedBy(BN(100000000), BN(1000))
      [] unit = "megabar"  -> BnMultipliedBy(BN(100000000), BN(1000000))
      [] unit = "gigabar"  -> BnMultipliedBy(BN(100000000), BN(1000000000))

maxTinybar == BnMinus(BnPow(BN(2), 63), BN(1))

minTinybar == BnPow(BN(-2), 63)

\* 2 ** 53, the bound of the guard in Hbar.fromTinybar
TwoPow53 == BnPow(BN(2), 53)

\* A value of the type number | BigNumber | string handed to Hbar: its JavaScript
\* type and the BigNumber that "amount instanceof BigNumber ? amount : new
\* BigNumber(amount)" makes of it.
Amount(type, bn) == [type |-> type, bn |-> bn]

NoValue == [kind |-> "none"]

\* an Hbar object: its _tinybar (its _unit is always HbarUnit.Hbar)
HbarObject(tinybar) == [kind |-> "Hbar", tinybar |-> tinybar]

\* the outcome of a call: the value returned, or the error thrown
Returned(value) == [threw |-> "none", value |-> value]

Thrown(error) == [threw |-> error, value |-> NoValue]

\* Hbar._check: TRUE when it throws HbarRangeError
checkThrows(tinybar, allowNegative) ==
    \/ BnIsNegative(tinybar) /\ ~allowNegative /\ BnIsLessThan(tinybar, maxTinybar)
    \/ BnIsGreaterThan(tinybar, maxTinybar)

\* new Hbar(amount), amount already a BigNumber
newHbar(bnAmount) ==
    LET tinybar == BnMultipliedBy(bnAmount, toTinybarCount("hbar"))
    IN  IF checkThrows(tinybar, TRUE)
        THEN Thrown("HbarRangeError")
        ELSE Returned(HbarObject(tinybar))

\* Hbar.from(amount, unit)
from(amount, unit) ==
    LET tinybar == BnMultipliedBy(amount.bn, toTinybarCount(unit))
        inHbar  == BnDividedBy(tinybar, toTinybarCount("hbar"))
    IN  newHbar(inHbar)

\* Hbar.fromTinybar(amount); the error built inside the guard is itself made
\* from "new Hbar(amount)", which throws the same HbarRangeError
fromTinybar(amount) ==
    IF amount.type = "number" /\ BnCompare(amount.bn, TwoPow53) >= 0
    THEN Thrown("HbarRangeError")
    ELSE newHbar(BnDividedBy(amount.bn, toTinybarCount("hbar")))

\* as() with the unit ignored: always the amount in hbars
asInHbar(self, unit) == BnDividedBy(self.tinybar, toTinybarCount("hbar"))

\* Hbar.prototype.as(unit)
as(self, unit) ==
    IF unit = "tinybar" THEN self.tinybar
    ELSE BnDividedBy(self.tinybar, toTinybarCount(unit))

\* Hbar.prototype.multipliedBy(amount)
multipliedBy(self, amount) == newHbar(BnMultipliedBy(self.tinybar, amount.bn))

\* convertToTinybar(amount, unit)
convertToTinybar(amount, unit) == BnMultipliedBy(amount.bn, toTinybarCount(unit))

\* amount instanceof Hbar
IsHbar(amount) == "kind" \in DOMAIN amount /\ amount.kind = "Hbar"

\* plus() that hands the sum in tinybars to the constructor, as multipliedBy does
plusNoDivide(self, amount, unit) ==
    newHbar(IF IsHbar(amount)
            THEN BnPlus(self.tinybar, amount.tinybar)
            ELSE BnPlus(self.tinybar, convertToTinybar(amount, unit)))

\* Hbar.prototype.plus(hbar), plus(amount, unit)
plus(self, amount, unit) ==
    newHbar(BnDividedBy(IF IsHbar(amount)
                        THEN BnPlus(self.tinybar, amount.tinybar)
                        ELSE BnPlus(self.tinybar, convertToTinybar(amount, unit)),
                        toTinybarCount("hbar")))

\* Hbar.prototype.minus(hbar), minus(amount, unit)
minus(self, amount, unit) ==
    newHbar(BnDividedBy(IF IsHbar(amount)
                        THEN BnMinus(self.tinybar, amount.tinybar)
                        ELSE BnMinus(self.tinybar, convertToTinybar(amount, unit)),
                        toTinybarCount("hbar")))

\* Hbar.prototype.negated()
negated(self) == newHbar(BnDividedBy(BnNegated(self.tinybar), toTinybarCount("hbar")))

\* Hbar.prototype._check(allowNegative)
check(self, allowNegative) ==
    IF checkThrows(self.tinybar, allowNegative)
    THEN Thrown("HbarRangeError")
    ELSE Returned(NoValue)

(***************************************************************************)
(* The inputs of the Hbar runs                                             *)
(***************************************************************************)
\* integers -MaxSmall..MaxSmall are among the raw values and the multipliers
MaxSmall == 2

\* the values within Slack of each boundary (2^63 - 1, -2^63, 2^53, -2^53)
Slack == 1

Around(b) == {BnPlus(b, BN(d)) : d \in -Slack..Slack}

\* integers given exactly, as decimal strings
ExactIntegers ==
    Around(maxTinybar) \cup Around(minTinybar)
        \cup Around(TwoPow53) \cup Around(BnNegated(TwoPow53))
        \cup {BN(n) : n \in -MaxSmall..MaxSmall}
        \cup {BNNegZero, BN(150000000), BN(-150000000)}

\* JavaScript numbers whose decimal string is the number itself: small
\* integers, -0, and the doubles next to 2^53 on either side (below 2^53 they
\* are 1 apart, above it 2 apart)
DoublesNear53 ==
    {BnMinus(TwoPow53, BN(d)) : d \in 0..Slack} \cup {BnPlus(TwoPow53, BN(2 * d)) : d \in 0..Slack}

Doubles ==
    DoublesNear53 \cup {BnNegated(x) : x \in DoublesNear53}
        \cup {BN(n) : n \in -MaxSmall..MaxSmall}
        \cup {BNNegZero, BN(150000000), BN(-150000000), BnDividedBy(BN(3), BN(2))}

\* decimal strings that are not integers, or are bounds in hbars
Decimals ==
    { BnDividedBy(BN(3), BN(2)),
      BnDividedBy(BN(1), BN(100000000)),
      BnDividedBy(BN(1), BN(1000000000)),
      BnDividedBy(maxTinybar, toTinybarCount("hbar")),
      BnDividedBy(minTinybar, toTinybarCount("hbar")) }

AmountInputs ==
    {Amount("string", x) : x \in ExactIntegers \cup Decimals}
        \cup {Amount("BigNumber", x) : x \in Around(maxTinybar) \cup Around(minTinybar)}
        \cup {Amount("number", x) : x \in Doubles}

\* the arguments of multipliedBy (number | BigNumber)
Multipliers ==
    {Amount("number", BN(n)) : n \in -1..MaxSmall}
        \cup {Amount("BigNumber", BnDividedBy(BN(1), BN(2)))}

\* the right operands of plus and minus (number | BigNumber), each also as
\* the Hbar that Hbar.from makes of it
Operands ==
    {Amount("number", BN(n)) : n \in {-1, MaxSmall}}
        \cup {Amount("BigNumber", BnDividedBy(BN(3), BN(2)))}

(***************************************************************************)
(* The Hbar runs: a caller picks a raw value and a unit, makes Hbar           *)
(* objects from them and calls the methods of the object it holds.         *)
(***************************************************************************)
HCall(op, self, arg, u, allowNegative, of, out) ==
    [op |-> op, self |-> self, arg |-> arg, unit |-> u,
     allowNegative |-> allowNegative, of |-> of, out |-> out]

NoCall == HCall("none", NoValue, NoValue, "none", FALSE, NoValue, Returned(NoValue))

\* the caller keeps the object a factory returned; a throw leaves it with
\* the object it held
Held(out) == IF out.threw = "none" THEN out.value ELSE held

HInit ==
    /\ rawAmount \in AmountInputs
    /\ rawUnit \in HbarUnit
    /\ held = NoValue
    /\ hcall = NoCall
    /\ targs = NoValue
    /\ tid = NoValue
    /\ tcall = NoValue
    /\ rmsg = NoValue
    /\ rcall = NoValue

\* h = new Hbar(amount)
HNew ==
    LET out == newHbar(rawAmount.bn)
    IN  /\ hcall' = HCall("new", NoValue, rawAmount, "none", FALSE, NoValue, out)
        /\ held' = Held(out)
        /\ UNCHANGED <<rawAmount, rawUnit, tvars, rvars>>

\* h = Hbar.fromTinybar(amount)
HFromTinybar ==
    LET out == fromTinybar(rawAmount)
    IN  /\ hcall' = HCall("fromTinybar", NoValue, rawAmount, "none", FALSE, NoValue, out)
        /\ held' = Held(out)
        /\ UNCHANGED <<rawAmount, rawUnit, tvars, rvars>>

\* h = Hbar.from(amount, unit)
HFrom ==
    LET out == from(rawAmount, rawUnit)
    IN  /\ hcall' = HCall("from", NoValue, rawAmount, rawUnit, FALSE, NoValue, out)
        /\ held' = Held(out)
        /\ UNCHANGED <<rawAmount, rawUnit, tvars, rvars>>

\* h.as(unit)
HAs ==
    /\ held # NoValue
    /\ hcall' = HCall("as", held, NoValue, rawUnit, FALSE, NoValue,
                      Returned([kind |-> "BigNumber", bn |-> as(held, rawUnit)]))
    /\ UNCHANGED <<rawAmount, rawUnit, held, tvars, rvars>>

\* Hbar.from(x, unit) for the x that h.as(unit) has just returned
HFromAs ==
    /\ hcall.op = "as"
    /\ hcall' = HCall("from", NoValue, Amount("BigNumber", hcall.out.value.bn), rawUnit,
                      FALSE, hcall.self, from(Amount("BigNumber", hcall.out.value.bn), rawUnit))
    /\ UNCHANGED <<rawAmount, rawUnit, held, tvars, rvars>>

\* h.multipliedBy(k)
HMultipliedBy ==
    /\ held # NoValue
    /\ \E k \in Multipliers :
          hcall' = HCall("multipliedBy", held, k, "none", FALSE, NoValue, multipliedBy(held, k))
    /\ UNCHANGED <<rawAmount, rawUnit, held, tvars, rvars>>

\* h._check(allowNegative)
HCheck ==
    /\ held # NoValue
    /\ \E allowNegative \in BOOLEAN :
          hcall' = HCall("_check", held, NoValue, "none", allowNegative, NoValue,
                         check(held, allowNegative))
    /\ UNCHANGED <<rawAmount, rawUnit, held, tvars, rvars>>

\* the calls of plus with one right operand: as a raw value with a unit, and
\* (when Hbar.from returned one) as the Hbar built from them
PlusCalls(self, amount, unit, built) ==
    {HCall("plus", self, amount, unit, FALSE, built.value, plus(self, amount, unit))}
        \cup (IF built.threw = "none"
              THEN {HCall("plus", self, built.value, "none", FALSE, built.value,
                          plus(self, built.value, "none"))}
              ELSE {})

MinusCalls(self, amount, unit, built) ==
    {HCall("minus", self, amount, unit, FALSE, built.value, minus(self, amount, unit))}
        \cup (IF built.threw = "none"
              THEN {HCall("minus", self, built.value, "none", FALSE, built.value,
                          minus(self, built.value, "none"))}
              ELSE {})

\* h.plus(b), h.plus(amount, unit)
HPlus ==
    /\ held # NoValue
    /\ \E b \in Operands : hcall' \in PlusCalls(held, b, rawUnit, from(b, rawUnit))
    /\ UNCHANGED <<rawAmount, rawUnit, held, tvars, rvars>>

\* h.minus(b), h.minus(amount, unit)
HMinus ==
    /\ held # NoValue
    /\ \E b \in Operands : hcall' \in MinusCalls(held, b, rawUnit, from(b, rawUnit))
    /\ UNCHANGED <<rawAmount, rawUnit, held, tvars, rvars>>

\* h.negated()
HNegated ==
    /\ held # NoValue
    /\ hcall' = HCall("negated", held, NoValue, "none", FALSE, NoValue, negated(held))
    /\ UNCHANGED <<rawAmount, rawUnit, held, tvars, rvars>>

HNext ==
    \/ HNew \/ HFromTinybar \/ HFrom \/ HAs \/ HFromAs \/ HMultipliedBy \/ HCheck
    \/ HPlus \/ HMinus \/ HNegated

SpecHbar == HInit /\ [][HNext]_vars

(***************************************************************************)
(* Claims about Hbar, checked under SpecHbar                               *)
(***************************************************************************)
InInt64(x) == BnCompare(minTinybar, x) <= 0 /\ BnCompare(x, maxTinybar) <= 0

ExactInput(a) == a.type \in {"string", "BigNumber"}

\* C1: for every integer v given exactly (a string or a BigNumber),
\* Hbar.fromTinybar(v) succeeds if and only if -2^63 <= v <= 2^63 - 1.
C1_FromTinybarInt64 ==
    (hcall.op = "fromTinybar" /\ ExactInput(hcall.arg) /\ BnIsInteger(hcall.arg.bn))
        => ((hcall.out.threw = "none") <=> InInt64(hcall.arg.bn))

\* C2: a.multipliedBy(k) returns an Hbar of exactly a._tinybar * k tinybars, or
\* throws HbarRangeError when that product is outside the signed 64-bit range;
\* a is unchanged.
C2_MultipliedByExact ==
    hcall.op = "multipliedBy"
        => LET product == BnMultipliedBy(hcall.self.tinybar, hcall.arg.bn)
           IN  /\ held = hcall.self
               /\ IF InInt64(product)
                  THEN hcall.out.threw = "none" /\ hcall.out.value.tinybar = product
                  ELSE hcall.out.threw = "HbarRangeError"

\* C7: for every unit D and every Hbar of an integer number v of tinybars in
\* [-2^63, 2^63 - 1], Hbar.from(h.as(D), D) is an Hbar of exactly v tinybars.
C7_AsFromRoundTrip ==
    (/\ hcall.op = "from"
     /\ hcall.of.kind = "Hbar"
     /\ BnIsInteger(hcall.of.tinybar)
     /\ InInt64(hcall.of.tinybar))
        => (hcall.out.threw = "none" /\ hcall.out.value.tinybar = hcall.of.tinybar)

\* the round trip of 2^63 - 1 tinybars through gigabars, which has 17 decimals
C7_Witness ==
    /\ hcall.op = "from"
    /\ hcall.of.kind = "Hbar"
    /\ hcall.of.tinybar = maxTinybar
    /\ hcall.unit = "gigabar"
    /\ hcall.arg.bn.e = -17
    /\ hcall.out.threw = "none"

\* C8: Hbar.fromTinybar(n) throws for every JavaScript number n whose
\* magnitude is 2^53 or more, positive or negative; a string or a BigNumber of
\* such a magnitude (and inside the 64-bit range) is accepted.
C8_FromTinybarPrecisionGuard ==
    hcall.op = "fromTinybar"
        => LET n   == hcall.arg.bn
               big == BnCompare(n, TwoPow53) >= 0 \/ BnCompare(n, BnNegated(TwoPow53)) <= 0
           IN  /\ (hcall.arg.type = "number" /\ big) => hcall.out.threw # "none"
               /\ (ExactInput(hcall.arg) /\ big /\ InInt64(n)) => hcall.out.threw = "none"

\* C9: on every constructed Hbar, _check(false) throws HbarRangeError if the
\* number of tinybars is strictly negative and succeeds if it is zero or
\* positive (and in range); _check(true) succeeds on a negative Hbar.
C9_CheckNegative ==
    hcall.op = "_check"
        => LET t        == hcall.self.tinybar
               negative == BnCompare(t, BN(0)) < 0
           IN  /\ (~hcall.allowNegative /\ negative) => hcall.out.threw = "HbarRangeError"
               /\ (~hcall.allowNegative /\ ~negative /\ InInt64(t)) => hcall.out.threw = "none"
               /\ (hcall.allowNegative /\ negative) => hcall.out.threw = "none"

(***************************************************************************)
(* JavaScript values used by the transaction identifier                    *)
(* (src/src/ExchangeRate.ts, lines 41-248)                                 *)
(***************************************************************************)
Undefined == [kind |-> "undefined"]

Null == [kind |-> "null"]

Bool(b) == [kind |-> "boolean", v |-> b]

\* a JavaScript number holding the integer v
Num(v) == [kind |-> "number", v |-> v]

\* a string, as the sequence of its characters
Str(chars) == [kind |-> "string", v |-> chars]

\* x == null in JavaScript: true of null and of undefined
IsNullish(x) == x.kind \in {"undefined", "null"}

(***************************************************************************)
(* Strings                                                                 *)
(***************************************************************************)
DigitChars == <<"0", "1", "2", "3", "4", "5", "6", "7", "8", "9">>

IsDigitChar(ch) == \E d \in 1..10 : DigitChars[d] = ch

DigitOf(ch) == (CHOOSE d \in 1..10 : DigitChars[d] = ch) - 1

MarkScheduled == <<"?", "s", "c", "h", "e", "d", "u", "l", "e", "d">>

\* String.prototype.indexOf(sep) + 1: 0 when sep does not occur in chars
IndexOf(chars, sep) ==
    LET at == {i \in 1..(Len(chars) - Len(sep) + 1) : SubSeq(chars, i, i + Len(sep) - 1) = sep}
    IN  IF at = {} THEN 0 ELSE CHOOSE i \in at : \A j \in at : i <= j

\* String.prototype.includes
Includes(chars, sep) == IndexOf(chars, sep) # 0

\* String.prototype.split(sep): the pieces of chars between the seps
RECURSIVE Split(_, _)
Split(chars, sep) ==
    LET i == IndexOf(chars, sep)
    IN  IF i = 0 THEN <<chars>>
        ELSE <<SubSeq(chars, 1, i - 1)>> \o Split(SubSeq(chars, i + Len(sep), Len(chars)), sep)

\* [a, b] = chars.split(sep): b is undefined when there is one piece only
Split2(chars, sep) ==
    <<Str(Split(chars, sep)[1]),
      IF Len(Split(chars, sep)) >= 2 THEN Str(Split(chars, sep)[2]) ELSE Undefined>>

\* chars.replace(sep, ""): the first occurrence removed
RemoveFirst(chars, sep) ==
    LET i == IndexOf(chars, sep)
    IN  IF i = 0 THEN chars
        ELSE SubSeq(chars, 1, i - 1) \o SubSeq(chars, i + Len(sep), Len(chars))

\* the decimal digits of a natural number n that TLC can hold
RECURSIVE IntChars(_)
IntChars(n) ==
    IF n < 10 THEN <<DigitChars[n + 1]>> ELSE IntChars(n \div 10) \o <<DigitChars[(n % 10) + 1]>>

\* the four decimal digits of a limb
LimbChars(n) ==
    <<DigitChars[(n \div 1000) + 1], DigitChars[((n \div 100) % 10) + 1],
      DigitChars[((n \div 10) % 10) + 1], DigitChars[(n % 10) + 1]>>

RECURSIVE NatCharsFrom(_, _)
NatCharsFrom(a, i) == IF i = 0 THEN <<>> ELSE LimbChars(a[i]) \o NatCharsFrom(a, i - 1)

\* the decimal digits of a natural number of any size
NatChars(a) ==
    IF a = <<>> THEN <<"0">> ELSE IntChars(a[Len(a)]) \o NatCharsFrom(a, Len(a) - 1)

\* the digit at place i of digits, 0 before its first place
DigitAt(digits, i) == IF i >= 1 THEN DigitOf(digits[i]) ELSE 0

\* the natural number that a sequence of decimal digits writes
NatOfDigits(digits) ==
    NatStrip([j \in 1..((Len(digits) + 3) \div 4) |->
                 DigitAt(digits, Len(digits) - 4 * j + 1) * 1000
                 + DigitAt(digits, Len(digits) - 4 * j + 2) * 100
                 + DigitAt(digits, Len(digits) - 4 * j + 3) * 10
                 + DigitAt(digits, Len(digits) - 4 * j + 4)])

(***************************************************************************)
(* Long (the long package, imported at line 31): a signed 64-bit integer,  *)
(* held as its value                                                       *)
(***************************************************************************)
LongValue(v) == [kind |-> "Long", v |-> v]

\* 2^31, 2^32, 2^63 and 2^64 in limbs
Nat2Pow31 == <<3648, 4748, 21>>

Nat2Pow32 == <<7296, 9496, 42>>

Nat2Pow63 == <<5808, 5477, 368, 3372, 922>>

Nat2Pow64 == <<1616, 955, 737, 6744, 1844>>

\* the magnitude of an integer, as a natural number
BnNat(x) == NatShift(x.c, x.e)

\* the Long of a sign and a magnitude; the Long zero has no sign
LongOf(sm) == LongValue(BigNumber(IF sm[2] = <<>> THEN 1 ELSE sm[1], sm[2], 0))

\* the residue modulo full of the integer whose magnitude has remainder r
WrapResidue(negative, r, full) == IF negative /\ r # <<>> THEN NatSub(full, r) ELSE r

\* the two's-complement reading of a residue m modulo full = 2 * half
WrapTwos(m, half, full) == IF NatCmp(m, half) >= 0 THEN <<-1, NatSub(full, m)>> ELSE <<1, m>>

\* the low bits of an integer of magnitude a, read as a signed integer
Wrap(negative, a, half, full) ==
    WrapTwos(WrapResidue(negative, NatDivMod(a, full)[2], full), half, full)

\* MIN_VALUE below -2^63, MAX_VALUE from 2^63 - 1 on
Clamp(s, a) ==
    IF NatCmp(a, Nat2Pow63) < 0 THEN <<s, a>>
    ELSE IF s < 0 THEN <<-1, Nat2Pow63>> ELSE <<1, NatSub(Nat2Pow63, <<1>>)>>

\* Long.fromNumber(v) for an integer-valued number: NaN is 0, and values
\* outside the 64-bit range are clamped
LongFromNumber(v) == LongOf(IF BnIsNaN(v) THEN <<1, <<>>>> ELSE Clamp(v.s, BnNat(v)))

\* Long.prototype.toInt(): the low 32 bits, read as a signed integer
LongToInt(x) == Num(LongOf(Wrap(x.v.s < 0, BnNat(x.v), Nat2Pow31, Nat2Pow32)).v)

\* Long.prototype.toString()
LongToString(x) == (IF x.v.s < 0 THEN <<"-">> ELSE <<>>) \o NatChars(BnNat(x.v))

\* Long.prototype.compare
LongCompare(x, y) == BnCompare(x.v, y.v)

\* Long.prototype.neg(): two's complement, so MIN_VALUE is its own negation
LongNeg(x) == LongOf(Wrap(x.v.s > 0, BnNat(x.v), Nat2Pow63, Nat2Pow64))

\* the number of digits that chunk starts with
DigitPrefix(chunk) ==
    Cardinality({p \in 1..Len(chunk) : \A i \in 1..p : IsDigitChar(chunk[i])})

\* digit k of parseInt(chunk, 10) written with as many digits as chunk has
\* characters: parseInt reads the digits chunk starts with, and Long.fromNumber
\* makes 0 of the NaN that parseInt gives when there are none
ChunkDigit(chunk, k) ==
    IF k <= Len(chunk) - DigitPrefix(chunk) THEN "0"
    ELSE chunk[k - (Len(chunk) - DigitPrefix(chunk))]

\* the chunk of 8 characters (fewer at the end) that character k of chars is in
ChunkOf(chars, k) ==
    SubSeq(chars, k - ((k - 1) % 8),
           IF k - ((k - 1) % 8) + 7 <= Len(chars) THEN k - ((k - 1) % 8) + 7 ELSE Len(chars))

\* Long.fromString's loop, result = result * 10^size + parseInt(chunk) over
\* the chunks: the digits of the chunks' values, written one after another
LongDigits(chars) ==
    [k \in 1..Len(chars) |-> ChunkDigit(ChunkOf(chars, k), ((k - 1) % 8) + 1)]

\* r.neg() for the outcome r of a call
LongNegOf(r) == IF r.threw # "none" THEN r ELSE Returned(LongNeg(r.value))

\* Long.fromString(chars) in radix 10, for chars without blanks and letters
\* of NaN and Infinity
RECURSIVE LongFromString(_)
LongFromString(chars) ==
    IF chars = <<>> THEN Thrown("Error")
    ELSE IF IndexOf(chars, <<"-">>) > 1 THEN Thrown("Error")
    ELSE IF chars[1] = "-" THEN LongNegOf(LongFromString(Tail(chars)))
    ELSE Returned(LongOf(Wrap(FALSE, NatOfDigits(LongDigits(chars)), Nat2Pow63, Nat2Pow64)))

\* Long.fromValue(val): a number, a string, or an object read as a Long
LongFromValue(val) ==
    CASE val.kind = "number" -> Returned(LongFromNumber(val.v))
      [] val.kind = "string" -> LongFromString(val.v)
      [] val.kind = "Long"   -> Returned(val)
      [] OTHER               -> Thrown("TypeError")

(***************************************************************************)
(* The collaborators AccountId and Timestamp (../account/AccountId.js and  *)
(* ../Timestamp.js, imported at lines 28-29)                               *)
(***************************************************************************)
AccountId(shard, realm, num) ==
    [kind |-> "AccountId", shard |-> shard, realm |-> realm, num |-> num]

\* AccountId.prototype.toString(): shard.realm.num
AccountIdToString(a) ==
    LongToString(a.shard) \o <<".">> \o LongToString(a.realm) \o <<".">> \o LongToString(a.num)

IsDigits(chars) == chars # <<>> /\ \A i \in 1..Len(chars) : IsDigitChar(chars[i])

AccountIdOfLongs(longs) == AccountId(longs[1], longs[2], longs[3])

\* the account of "num" or of "shard.realm.num", each in decimal digits
AccountIdOfPieces(pieces) ==
    IF Len(pieces) \in {1, 3} /\ \A k \in 1..Len(pieces) : IsDigits(pieces[k])
    THEN Returned(AccountIdOfLongs(
             [k \in 1..3 |-> IF Len(pieces) = 3 THEN LongFromString(pieces[k]).value
                             ELSE IF k = 3 THEN LongFromString(pieces[1]).value
                             ELSE LongValue(BN(0))]))
    ELSE Thrown("Error")

\* AccountId.fromString(text)
AccountIdFromString(text) ==
    IF text.kind # "string" THEN Thrown("TypeError")
    ELSE AccountIdOfPieces(Split(text.v, <<".">>))

Sign(n) == IF n < 0 THEN -1 ELSE IF n > 0 THEN 1 ELSE 0

\* the first of three comparisons that is not 0, or 0
FirstDifference(c) == IF c[1] # 0 THEN c[1] ELSE IF c[2] # 0 THEN c[2] ELSE c[3]

\* AccountId.prototype.compare: shard, then realm, then num
AccountIdCompare(a, b) ==
    FirstDifference([k \in 1..3 |->
        Sign(LongCompare(a[<<"shard", "realm", "num">>[k]], b[<<"shard", "realm", "num">>[k]]))])

\* AccountId.prototype._toProtobuf
AccountIdToProtobuf(a) == [shardNum |-> a.shard, realmNum |-> a.realm, accountNum |-> a.num]

\* AccountId._fromProtobuf
AccountIdFromProtobuf(m) == AccountId(m.shardNum, m.realmNum, m.accountNum)

\* new Timestamp(seconds, nanos)
Timestamp(seconds, nanos) == [kind |-> "Timestamp", seconds |-> seconds, nanos |-> nanos]

\* Timestamp.prototype.compare: seconds, then nanos
TimestampCompare(a, b) ==
    FirstDifference([k \in 1..3 |->
        IF k = 3 THEN 0
        ELSE Sign(LongCompare(a[<<"seconds", "nanos">>[k]], b[<<"seconds", "nanos">>[k]]))])

\* Timestamp.prototype._toProtobuf: nanos is an int32 on the wire
TimestampToProtobuf(t) == [seconds |-> t.seconds, nanos |-> LongToInt(t.nanos)]

\* Timestamp._fromProtobuf
TimestampFromProtobuf(m) == Timestamp(m.seconds, LongFromNumber(m.nanos.v))

(***************************************************************************)
(* proto.TransactionID of @hashgraph/proto, imported at line 30: the bytes *)
(* hold the fields that were written; a field that is null or undefined is *)
(* not written, and decoding gives an unwritten field its default          *)
(***************************************************************************)
Absent == [kind |-> "absent"]

Written(x) == IF IsNullish(x) THEN Absent ELSE x

\* proto.TransactionID.encode(message).finish()
ProtoEncode(m) ==
    [kind |-> "bytes",
     accountID |-> Written(m.accountID),
     transactionValidStart |-> Written(m.transactionValidStart),
     scheduled |-> Written(m.scheduled),
     nonce |-> Written(m.nonce)]

\* proto.TransactionID.decode(bytes)
ProtoDecode(bytes) ==
    [accountID |-> IF bytes.accountID = Absent THEN Null ELSE bytes.accountID,
     transactionValidStart |->
         IF bytes.transactionValidStart = Absent THEN Null ELSE bytes.transactionValidStart,
     scheduled |-> IF bytes.scheduled = Absent THEN Bool(FALSE) ELSE bytes.scheduled,
     nonce |-> IF bytes.nonce = Absent THEN Num(BN(0)) ELSE bytes.nonce]

(***************************************************************************)
(* The transaction identifier class (src/src/ExchangeRate.ts, lines 41-248)*)
(* The class is the file's default export and calls itself TransactionId   *)
(* in its static methods and its documentation; TransactionId below is     *)
(* this class.  An object is the record of its properties, undefined for   *)
(* those never assigned; frozen records Object.freeze, after which an      *)
(* assignment to a property throws TypeError (class bodies are strict mode *)
(* code).                                                                  *)
(***************************************************************************)
\* nonce != 0 for a nonce that is a number or a Long
LooseNotZero(x) == ~(x.kind \in {"number", "Long"} /\ BnIsZero(x.v))

\* this.nonce = ...; return this
setNonce(self, nonce) ==
    IF self.frozen THEN Thrown("TypeError")
    ELSE Returned([self EXCEPT
             !.nonce = IF nonce.kind = "number" THEN LongFromNumber(nonce.v) ELSE nonce])

\* this.scheduled = scheduled; return this
setScheduled(self, scheduled) ==
    IF self.frozen THEN Thrown("TypeError")
    ELSE Returned([self EXCEPT !.scheduled = scheduled])

\* new TransactionId(foreignTransactionBytes, payloadStart, payloadLength, nonce),
\* where nonce = null by default; a property that is never assigned reads as
\* undefined
newTransactionId(foreignTransactionBytes, payloadStart, payloadLength, nonce) ==
    LET made == [kind |-> "TransactionId", frozen |-> FALSE,
                 foreignTransactionBytes |-> foreignTransactionBytes,
                 payloadStart |-> payloadStart,
                 payloadLength |-> payloadLength,
                 nonce |-> Null,
                 accountId |-> Undefined, validStart |-> Undefined, scheduled |-> Undefined]
    IN  Returned([(IF ~IsNullish(nonce) /\ LooseNotZero(nonce)
                   THEN setNonce(made, nonce).value ELSE made) EXCEPT !.frozen = TRUE])

\* the new TransactionId(...) of fromString once its arguments are evaluated:
\* the first argument that threw ends the call
parsedTransactionId(accountId, seconds, nanos, isScheduled, nonce) ==
    IF accountId.threw # "none" THEN accountId
    ELSE IF seconds.threw # "none" THEN seconds
    ELSE IF nanos.threw # "none" THEN nanos
    ELSE IF nonce.threw # "none" THEN nonce
    ELSE newTransactionId(accountId.value, Timestamp(seconds.value, nanos.value), isScheduled,
                          nonce.value)

\* the return statement of fromString
fromStringReturn(account, seconds, f) ==
    IF f.threw # "none" THEN Thrown(f.threw)
    ELSE parsedTransactionId(AccountIdFromString(account), LongFromValue(seconds),
                             LongFromValue(f.nanos), f.isScheduled,
                             IF IsNullish(f.nonce) THEN Returned(Null)
                             ELSE LongFromString(f.nonce.v))

RestFields(threw, nanos, isScheduled, nonce) ==
    [threw |-> threw, nanos |-> nanos, isScheduled |-> isScheduled, nonce |-> nonce]

\* [nanos, rest] = rest.split("?scheduled"); isScheduled = true; nonce from rest
fromStringScheduled(mark) ==
    IF mark[2] = Undefined THEN RestFields("TypeError", Undefined, Undefined, Undefined)
    ELSE RestFields("none", mark[1], Bool(TRUE),
                    IF Includes(mark[2].v, <<"/">>)
                    THEN Str(RemoveFirst(mark[2].v, <<"/">>)) ELSE Null)

\* the if statement of fromString; isScheduled and nonce stay undefined in
\* its last branch
fromStringRest(rest) ==
    IF Includes(rest, <<"?">>) THEN fromStringScheduled(Split2(rest, MarkScheduled))
    ELSE IF Includes(rest, <<"/">>)
    THEN RestFields("none", Split2(rest, <<"/">>)[1], Bool(FALSE), Split2(rest, <<"/">>)[2])
    ELSE RestFields("none", Str(rest), Undefined, Undefined)

\* [seconds, rest] = rest.split("."), then the if statement: a method call on
\* undefined throws TypeError
fromStringSeconds(account, dot) ==
    IF dot[2] = Undefined THEN Thrown("TypeError")
    ELSE fromStringReturn(account, dot[1], fromStringRest(dot[2].v))

\* [account, rest] = wholeId.split("@")
fromStringAccount(atSign) ==
    IF atSign[2] = Undefined THEN Thrown("TypeError")
    ELSE fromStringSeconds(atSign[1], Split2(atSign[2].v, <<".">>))

\* TransactionId.fromString(wholeId)
fromString(wholeId) == fromStringAccount(Split2(wholeId, <<"@">>))

\* toString()
toString(self) ==
    IF ~IsNullish(self.accountId) /\ ~IsNullish(self.validStart)
    THEN Returned(Str(AccountIdToString(self.accountId) \o <<"@">>
                      \o LongToString(self.validStart.seconds) \o <<".">>
                      \o LongToString(self.validStart.nanos)
                      \o (IF self.scheduled = Bool(TRUE) THEN MarkScheduled ELSE <<>>)
                      \o (IF ~IsNullish(self.nonce)
                          THEN <<"/">> \o LongToString(self.nonce) ELSE <<>>)))
    ELSE Thrown("Error")

\* _toProtobuf()
toProtobuf(self) ==
    [accountID |-> IF ~IsNullish(self.accountId)
                   THEN AccountIdToProtobuf(self.accountId) ELSE Null,
     transactionValidStart |-> IF ~IsNullish(self.validStart)
                               THEN TimestampToProtobuf(self.validStart) ELSE Null,
     scheduled |-> self.scheduled,
     nonce |-> IF ~IsNullish(self.nonce) THEN LongToInt(self.nonce) ELSE Null]

\* TransactionId._fromProtobuf(id)
fromProtobuf(id) ==
    IF ~IsNullish(id.accountID) /\ ~IsNullish(id.transactionValidStart)
    THEN newTransactionId(AccountIdFromProtobuf(id.accountID),
                          TimestampFromProtobuf(id.transactionValidStart),
                          id.scheduled, id.nonce)
    ELSE Thrown("Error")

\* toBytes()
toBytes(self) == ProtoEncode(toProtobuf(self))

\* TransactionId.fromBytes(bytes)
fromBytes(bytes) == fromProtobuf(ProtoDecode(bytes))

\* compare from if (comparison != 0) on
compareValidStart(comparison, self, other) ==
    IF comparison # 0 THEN Returned(Num(BN(comparison)))
    ELSE IF IsNullish(self.validStart) THEN Thrown("TypeError")
    ELSE Returned(Num(BN(TimestampCompare(self.validStart, other.validStart))))

\* compare(other): a method call on undefined throws TypeError
compare(self, other) ==
    IF IsNullish(self.accountId) THEN Thrown("TypeError")
    ELSE compareValidStart(AccountIdCompare(self.accountId, other.accountId), self, other)

(***************************************************************************)
(* The values the identifier runs draw from                                *)
(***************************************************************************)
Account(n) == AccountId(LongValue(BN(0)), LongValue(BN(0)), LongValue(BN(n)))

Owners == {Account(1001), Account(1002)}

Instant(seconds, nanos) == Timestamp(LongValue(BN(seconds)), LongValue(BN(nanos)))

ValidStarts == {Instant(5, 9), Instant(6, 0), Instant(1614385200, 123456789)}

\* the third constructor argument: a boolean, or left out
ScheduledArgs == {Bool(TRUE), Bool(FALSE), Undefined}

NonceNumbers ==
    {Num(BN(n)) : n \in 0..MaxSmall}
        \cup {Num(BN(117)), Num(BigNumber(1, Nat2Pow31, 0)), Num(BigNumber(1, Nat2Pow32, 0))}

NonceLongs ==
    {LongValue(BN(0)), LongOf(<<1, NatAdd(Nat2Pow32, <<117>>)>>),
     LongOf(<<1, NatSub(Nat2Pow63, <<1>>)>>)}

\* the fourth constructor argument: a number, a Long, null, or left out
NonceArgs == NonceNumbers \cup NonceLongs \cup {Null, Undefined}

ConstructorArgs ==
    [kind : {"arguments"}, owner : Owners, validStart : ValidStarts,
     scheduled : ScheduledArgs, nonce : NonceArgs]

\* owner@seconds.nanos followed by tail
Text(owner, validStart, tail) ==
    AccountIdToString(owner) \o <<"@">> \o LongToString(validStart.seconds) \o <<".">>
        \o LongToString(validStart.nanos) \o tail

\* the four examples of the text form, and the example in fromString
WellFormedTexts ==
    {Text(Account(1001), Instant(1614385200, 123456789), tail) :
        tail \in {<<>>, MarkScheduled, <<"/", "1", "1", "7">>,
                  MarkScheduled \o <<"/", "1", "1", "7">>}}
        \cup {<<"1", ".", "1", ".", "1", "@", "5", ".", "4">> \o MarkScheduled
                  \o <<"/", "1", "1", "7">>}

\* texts without an owner or without seconds: empty, no "@", no "." after
\* the "@", nothing before the "@", no seconds before the "."
MissingComponentTexts ==
    {<<>>,
     <<"0", ".", "0", ".", "1", "0", "0", "1">>,
     <<"0", ".", "0", ".", "1", "0", "0", "1", "@", "5">>,
     <<"@", "5", ".", "4">>,
     <<"0", ".", "0", ".", "1", "0", "0", "1", "@", ".", "4">>}

\* texts whose seconds ("x", "5x"), nanos ("y", "4.3") or nonce ("z") is not
\* an integer
NonIntegerTexts ==
    {<<"0", ".", "0", ".", "1", "0", "0", "1", "@", "x", ".", "4">>,
     <<"0", ".", "0", ".", "1", "0", "0", "1", "@", "5", "x", ".", "4">>,
     <<"0", ".", "0", ".", "1", "0", "0", "1", "@", "5", ".", "y">>,
     <<"0", ".", "0", ".", "1", "0", "0", "1", "@", "5", ".", "4", ".", "3">>,
     <<"0", ".", "0", ".", "1", "0", "0", "1", "@", "5", ".", "4", "/", "z">>}

\* these, a "?" that does not start "?scheduled", and an owner that is not
\* an account
MalformedTexts ==
    MissingComponentTexts \cup NonIntegerTexts
        \cup {<<"0", ".", "0", ".", "1", "0", "0", "1", "@", "5", ".", "4", "?", "x">>,
              <<"x", "@", "5", ".", "4">>}

Texts == WellFormedTexts \cup MalformedTexts

TextArgs == [kind : {"text"}, text : Texts]

\* the identifiers compare is handed: every owner and validStart, with
\* and without a scheduled flag and a nonce
Others ==
    {newTransactionId(a.owner, a.validStart, a.scheduled, a.nonce).value :
        a \in [owner : Owners, validStart : ValidStarts,
               scheduled : {Bool(FALSE)}, nonce : {Null}]
              \cup [owner : Owners, validStart : ValidStarts,
                    scheduled : {Bool(TRUE)}, nonce : {Num(BN(117))}]}

(***************************************************************************)
(* The identifier runs: a caller has either constructor arguments or a     *)
(* text, makes an identifier from them and calls the methods of the        *)
(* identifier it holds.                                                    *)
(***************************************************************************)
TCall(op, self, arg, out) == [op |-> op, self |-> self, arg |-> arg, out |-> out]

\* the caller keeps the identifier a call returned; a throw leaves it with
\* the identifier it held
TKept(out) == IF out.threw = "none" THEN out.value ELSE tid

\* TransactionId.fromString(text) for the outcome text of a toString()
fromStringOf(text) == IF text.threw # "none" THEN text ELSE fromString(text.value.v)

TInit ==
    /\ targs \in ConstructorArgs \cup TextArgs
    /\ tid = NoValue
    /\ tcall = TCall("none", NoValue, NoValue, Returned(NoValue))
    /\ rawAmount = NoValue
    /\ rawUnit = "hbar"
    /\ held = NoValue
    /\ hcall = NoCall
    /\ rmsg = NoValue
    /\ rcall = NoValue

\* id = new TransactionId(owner, validStart, scheduled, nonce)
TNew ==
    /\ targs.kind = "arguments"
    /\ tcall' = TCall("new", NoValue, targs,
                      newTransactionId(targs.owner, targs.validStart, targs.scheduled,
                                       targs.nonce))
    /\ tid' = TKept(tcall'.out)
    /\ UNCHANGED <<targs, hvars, rvars>>

\* id = TransactionId.fromString(text)
TFromString ==
    /\ targs.kind = "text"
    /\ tcall' = TCall("fromString", NoValue, Str(targs.text), fromString(targs.text))
    /\ tid' = TKept(tcall'.out)
    /\ UNCHANGED <<targs, hvars, rvars>>

\* id.setNonce(nonce): the caller holds the same object afterwards
TSetNonce ==
    /\ tid # NoValue
    /\ \E nonce \in NonceNumbers \cup NonceLongs :
          tcall' = TCall("setNonce", tid, nonce, setNonce(tid, nonce))
    /\ tid' = TKept(tcall'.out)
    /\ UNCHANGED <<targs, hvars, rvars>>

\* id.setScheduled(scheduled): the caller holds the same object afterwards
TSetScheduled ==
    /\ tid # NoValue
    /\ \E scheduled \in BOOLEAN :
          tcall' = TCall("setScheduled", tid, Bool(scheduled), setScheduled(tid, Bool(scheduled)))
    /\ tid' = TKept(tcall'.out)
    /\ UNCHANGED <<targs, hvars, rvars>>

\* id.toString()
TToString ==
    /\ tid # NoValue
    /\ tcall' = TCall("toString", tid, NoValue, toString(tid))
    /\ UNCHANGED <<targs, tid, hvars, rvars>>

\* TransactionId.fromString(id.toString())
TFromStringOfToString ==
    /\ tid # NoValue
    /\ tcall' = TCall("fromString(toString)", tid, NoValue, fromStringOf(toString(tid)))
    /\ UNCHANGED <<targs, tid, hvars, rvars>>

\* TransactionId._fromProtobuf(id._toProtobuf())
TFromProtobufOfToProtobuf ==
    /\ tid # NoValue
    /\ tcall' = TCall("_fromProtobuf(_toProtobuf)", tid, NoValue, fromProtobuf(toProtobuf(tid)))
    /\ UNCHANGED <<targs, tid, hvars, rvars>>

\* TransactionId.fromBytes(id.toBytes())
TFromBytesOfToBytes ==
    /\ tid # NoValue
    /\ tcall' = TCall("fromBytes(toBytes)", tid, NoValue, fromBytes(toBytes(tid)))
    /\ UNCHANGED <<targs, tid, hvars, rvars>>

\* id.compare(other)
TCompare ==
    /\ tid # NoValue
    /\ \E other \in Others : tcall' = TCall("compare", tid, other, compare(tid, other))
    /\ UNCHANGED <<targs, tid, hvars, rvars>>

TNext ==
    \/ TNew \/ TFromString \/ TSetNonce \/ TSetScheduled \/ TToString
    \/ TFromStringOfToString \/ TFromProtobufOfToProtobuf \/ TFromBytesOfToBytes \/ TCompare

SpecTxn == TInit /\ [][TNext]_vars

\* the outcome of an arithmetic method whose exact result is a number of
\* tinybars: an Hbar of exactly that many when it returns, and it returns
\* whenever that number is in the signed 64-bit range
ArithExact(out, exact) ==
    /\ out.threw \in {"none", "HbarRangeError"}
    /\ InInt64(exact) => out.threw = "none"
    /\ out.threw = "none" => out.value.tinybar = exact

C12_TinybarIsInteger ==
    /\ held # NoValue => BnIsInteger(held.tinybar)
    /\ (/\ hcall.op \in {"new", "from", "fromTinybar", "plus", "minus",
                          "multipliedBy", "negated"}
        /\ hcall.out.threw = "none")
           => BnIsInteger(hcall.out.value.tinybar)

(***************************************************************************)
(* Claims about the transaction identifier, checked under SpecTxn          *)
(***************************************************************************)
\* the owner, the validStart and the scheduled flag that an identifier was
\* constructed with are the first three arguments of its constructor
ConstructedWith(id) ==
    [owner |-> id.foreignTransactionBytes, validStart |-> id.payloadStart,
     scheduled |-> id.payloadLength, nonce |-> id.nonce]

\* an identifier with an owner and a validStart, and a scheduled flag that
\* is true or false
FullIdentifier(id) ==
    /\ ConstructedWith(id).owner.kind = "AccountId"
    /\ ConstructedWith(id).validStart.kind = "Timestamp"
    /\ ConstructedWith(id).scheduled.kind = "boolean"

\* a nonce argument that is exactly 0
ZeroNonce(n) == n.kind \in {"number", "Long"} /\ BnIsZero(n.v)

\* C3: for every identifier I with owner and validStart set, scheduled true
\* or false and a nonce present or absent, fromString(I.toString()) returns
\* an identifier with the same owner, validStart, scheduled flag and nonce.
C3_TextRoundTrip ==
    (tcall.op = "fromString(toString)" /\ FullIdentifier(tcall.self))
        => (/\ tcall.out.threw = "none"
            /\ ConstructedWith(tcall.out.value) = ConstructedWith(tcall.self))

\* C4: for every identifier I with owner and validStart set, either value of
\* scheduled and a nonce that is absent or a non-negative 64-bit integer,
\* _fromProtobuf(I._toProtobuf()) and fromBytes(I.toBytes()) return an
\* identifier with the same owner, validStart, scheduled flag and nonce.
C4_BinaryRoundTrip ==
    (/\ tcall.op \in {"_fromProtobuf(_toProtobuf)", "fromBytes(toBytes)"}
     /\ FullIdentifier(tcall.self)
     /\ (tcall.self.nonce = Null \/ tcall.self.nonce.v.s > 0))
        => (/\ tcall.out.threw = "none"
            /\ ConstructedWith(tcall.out.value) = ConstructedWith(tcall.self))

\* C5: an identifier never carries a nonce of zero: a nonce of exactly 0
\* given to the constructor or to setNonce leaves the nonce absent (null), and
\* the text of an identifier never ends in "/0".
C5_ZeroNonceAbsent ==
    /\ (tid # NoValue /\ tid.nonce # Null) => ~BnIsZero(tid.nonce.v)
    /\ (tcall.op = "new" /\ ZeroNonce(tcall.arg.nonce)) => tid.nonce = Null
    /\ (tcall.op = "setNonce" /\ ZeroNonce(tcall.arg))
           => (tcall.out.threw = "none" /\ tid.nonce = Null)
    /\ (tcall.op = "toString" /\ tcall.out.threw = "none")
           => SubSeq(tcall.out.value.v, Len(tcall.out.value.v) - 1, Len(tcall.out.value.v))
                  # <<"/", "0">>

\* C6: on a constructed identifier, setScheduled(b) and setNonce(n) (n not 0)
\* succeed: afterwards the same instance has scheduled = b (nonce = n) and
\* nothing else changed, and the call returns that instance.
C6_SettersMutateInPlace ==
    /\ tcall.op = "setScheduled"
           => (/\ tcall.out.threw = "none"
               /\ tcall.out.value = tid
               /\ tid = [tcall.self EXCEPT !.scheduled = tcall.arg])
    /\ (tcall.op = "setNonce" /\ ~ZeroNonce(tcall.arg))
           => (/\ tcall.out.threw = "none"
               /\ tcall.out.value = tid
               /\ tid = [tcall.self EXCEPT
                            !.nonce = IF tcall.arg.kind = "number"
                                      THEN LongFromNumber(tcall.arg.v) ELSE tcall.arg])

\* C10: a.compare(b) is the comparison of the owners when they differ, and
\* otherwise the comparison of the validStarts (seconds, then nanos), so it
\* is 0 for two identifiers of the same owner and validStart whatever their
\* scheduled flags and nonces are.
C10_CompareOwnerThenValidStart ==
    tcall.op = "compare"
        => (/\ tcall.out.threw = "none"
            /\ tcall.out.value =
                   Num(BN(FirstDifference(
                       <<AccountIdCompare(ConstructedWith(tcall.self).owner,
                                          ConstructedWith(tcall.arg).owner),
                         TimestampCompare(ConstructedWith(tcall.self).validStart,
                                          ConstructedWith(tcall.arg).validStart),
                         0>>))))

(***************************************************************************)
(* The exchange rates (src/src/ExchangeRate.ts)                            *)
(***************************************************************************)
\* a ProtoExchangeRate message; getExpirationtime() is a TimestampSeconds
\* message, or undefined when the field is not set
ProtoExchangeRate(hbarEquiv, centEquiv, expirationTime) ==
    [hbarEquiv |-> hbarEquiv, centEquiv |-> centEquiv, expirationTime |-> expirationTime]

TimestampSeconds(seconds) == [kind |-> "TimestampSeconds", seconds |-> seconds]

\* new Date(value): the time value of the Date is the number it is given
Date(value) == [kind |-> "Date", time |-> value]

\* exchangeRateToSdk(exchangeRate): a method call on undefined throws TypeError
exchangeRateToSdk(exchangeRate) ==
    IF exchangeRate = Undefined \/ exchangeRate.expirationTime = Undefined
    THEN Thrown("TypeError")
    ELSE Returned([hbarEquiv |-> exchangeRate.hbarEquiv,
                   centEquiv |-> exchangeRate.centEquiv,
                   expirationTime |-> Date(exchangeRate.expirationTime.seconds)])

\* the object literal of exchangeRateSetToSdk, once both properties are
\* evaluated: the first that threw ends the call
sdkExchangeRateSet(currentRate, nextRate) ==
    IF currentRate.threw # "none" THEN currentRate
    ELSE IF nextRate.threw # "none" THEN nextRate
    ELSE Returned([currentRate |-> currentRate.value, nextRate |-> nextRate.value])

\* exchangeRateSetToSdk(exchangeRateSet)
exchangeRateSetToSdk(exchangeRateSet) ==
    sdkExchangeRateSet(exchangeRateToSdk(exchangeRateSet.currentRate),
                       exchangeRateToSdk(exchangeRateSet.currentRate))

\* the rates of the messages: 30000 hbars for 12 or 15 cents, 1 for 580150,
\* with and without an expiration time
ProtoRates ==
    {ProtoExchangeRate(h, c, t) :
        h \in {1, 30000}, c \in {12, 15, 580150},
        t \in {TimestampSeconds(0), TimestampSeconds(1614385200), Undefined}}

\* the ExchangeRateSet messages; getNextrate() is undefined when not set
ProtoRateSets == [currentRate : ProtoRates, nextRate : ProtoRates \cup {Undefined}]

RCall(op, arg, out) == [op |-> op, arg |-> arg, out |-> out]

RInit ==
    /\ rmsg \in ProtoRateSets
    /\ rcall = RCall("none", NoValue, Returned(NoValue))
    /\ targs = NoValue
    /\ tid = NoValue
    /\ tcall = NoValue
    /\ rawAmount = NoValue
    /\ rawUnit = "hbar"
    /\ held = NoValue
    /\ hcall = NoCall

\* exchangeRateToSdk(rate) for a rate of the message
RExchangeRateToSdk ==
    /\ \E rate \in {rmsg.currentRate, rmsg.nextRate} :
          rcall' = RCall("exchangeRateToSdk", rate, exchangeRateToSdk(rate))
    /\ UNCHANGED <<rmsg, hvars, tvars>>

\* exchangeRateSetToSdk(message)
RExchangeRateSetToSdk ==
    /\ rcall' = RCall("exchangeRateSetToSdk", rmsg, exchangeRateSetToSdk(rmsg))
    /\ UNCHANGED <<rmsg, hvars, tvars>>

RNext == RExchangeRateToSdk \/ RExchangeRateSetToSdk

SpecRate == RInit /\ [][RNext]_vars

(***************************************************************************)
(* Claims about the exchange rates, checked under SpecRate                 *)
(***************************************************************************)
\* C14: exchangeRateSetToSdk(m) returns the rate set whose currentRate is
\* exchangeRateToSdk of m's current rate and whose nextRate is
\* exchangeRateToSdk of m's next rate.
C14_RateSetProjection ==
    (/\ rcall.op = "exchangeRateSetToSdk"
     /\ exchangeRateToSdk(rcall.arg.currentRate).threw = "none"
     /\ exchangeRateToSdk(rcall.arg.nextRate).threw = "none")
        => (/\ rcall.out.threw = "none"
            /\ rcall.out.value.currentRate = exchangeRateToSdk(rcall.arg.currentRate).value
            /\ rcall.out.value.nextRate = exchangeRateToSdk(rcall.arg.nextRate).value)

(***************************************************************************)
(* Claims about TransactionId.fromString, checked under SpecTxn            *)
(***************************************************************************)
\* C13: fromString throws, and returns no identifier, for every text in
\* which the owner or the seconds are missing and for every text whose
\* seconds, nanos or nonce is not an integer.
C13_FromStringRejectsMalformed ==
    (tcall.op = "fromString" /\ tcall.arg.v \in MissingComponentTexts \cup NonIntegerTexts)
        => (tcall.out.threw # "none" /\ tid = NoValue)

====
